---- MODULE Spec2Model ----
(***************************************************************************)
(* Session / authentication lifecycle of the LR console:                   *)
(*   src/components/AuthContext.tsx   AuthProvider, checkSessionGlobally   *)
(*   src/unnamed/part_004             authService (lines 97-218)           *)
(*   src/unnamed/part_010             ProtectedRoute (lines 178-209)       *)
(* One browser tab is modelled in full.  The remote auth provider, the     *)
(* profile table and the origin-scoped storage are the environment: every  *)
(* remote call is a suspension point whose resolution is a separate step,  *)
(* and other handlers may run between the call and its resolution.         *)
(* Time is in milliseconds.  A timer is due when now >= its deadline and   *)
(* time never passes a due timer (the event loop is not blocked).          *)
(***************************************************************************)
EXTENDS Integers, Sequences, FiniteSets, TLC

\* ------------------------------------------------------------------ bounds
\* Steps the user, the provider or the clock takes on their own in one
\* behaviour: login(), logout(), refreshSession(), an unsolicited auth event,
\* activity in this or another tab, time passing short of a timer, unmount.
MaxOps   == 3
MaxQueue == 2   \* auth events emitted and not yet delivered

\* --------------------------------------------------------------- constants
FAILSAFE_MS == 5000
TIMEOUT_MS  == 10 * 60 * 1000
\* 9 min 30 s: the gap after which another tab is seen to record activity
ActivityGapMs == 9 * 60 * 1000 + 30 * 1000

Users    == {"u1", "u2"}
NoId     == "none"
Absent   == -1          \* no timer pending / storage key not present
Statuses == {"Active", "Inactive", "Missing"}
Paths    == {"/force-reset-password", "/list"}

\* The null Identity and the profile rows of internal_user_data.
NoUser == [id |-> NoId, status |-> "none", role |-> "none", must_reset_password |-> FALSE]

RoleOf(u) == IF u = "u1" THEN "admin" ELSE "staff"

MustResetOf(u) == u = "u2"

VARIABLES
  now,            \* Date.now()
  dbStatus,       \* internal_user_data: status of each user's row, or Missing
  remoteSession,  \* user id of the provider's persisted session, or NoId
  user,           \* AuthProvider state `user`
  loading,        \* AuthProvider state `loading`
  lrUser,         \* lrService._currentUser
  lastUserId,     \* lastUserIdRef.current
  lastActivity,   \* localStorage kpm_last_activity, or Absent
  idleTimer,      \* deadline of inactivityTimerRef's pending timeout, or Absent
  failSafe,       \* deadline of the pending failSafeTimeout, or Absent
  isMounted,      \* isMounted of the bootstrap effect
  restorePc,      \* position of checkSessionGlobally / initialize
  restoreUid,     \* session.user.id read by checkSessionGlobally
  events,         \* auth events emitted by the provider, not yet delivered
  evFetch,        \* getUserProfile calls of SIGNED_IN handlers in flight, per id
  deferred,       \* setTimeout(() => signOut(), 0) callbacks pending
  loginPc,        \* position of login()
  loginUid,       \* identity the credentials of the running login belong to
  logoutsInFlight,\* logout() calls awaiting authService.logout()
  idleInFlight,   \* logoutDueToInactivity calls awaiting signOut()
  refreshPc,      \* position of refreshSession()
  refreshUid,     \* session.user.id read by getSessionUser
  ops,            \* steps taken so far that count against MaxOps
  seq,            \* history: the run of logout() calls, or of activity, just handled
  evFetchCount,   \* history: getUserProfile calls by handlers per id, per session
  loginEvFetch,   \* history: the running login's SIGNED_IN event made a handler fetch
  \* supabaseClient module (src/unnamed/part_005)
  bootPc,         \* position of the module's top-level code
  supabaseUrl,    \* import.meta.env.VITE_SUPABASE_URL || ''
  supabaseAnonKey,\* import.meta.env.VITE_SUPABASE_ANON_KEY is set
  bootMarker,     \* the pre-boot check's `lastActivity`, or Absent
  storage,        \* localStorage keys other than kpm_last_activity, in key(i) order
  client,         \* what `supabase` is: "none", "stub" or "real"
  \* lrService and its callers (src/unnamed/part_003)
  lrTable,        \* internal_lr_data: the row of each booking id, or NoRow
  assignJob,      \* assignTransporterToLRs in progress: rows fetched, not yet updated
  editForm,       \* EditLR's formData, or NoRow
  lrOps,          \* lrService operations started so far
  \* apiClient.withRetry (src/services/apiClient.ts)
  retryPc,        \* "idle", "call" (fn() awaited), "wait" (backoff), "returned", "thrown"
  retries,        \* the `retries` argument
  attempt,        \* the loop variable
  lastError,      \* err.code of the last caught error, as characters
  fnCalls,        \* history: invocations of fn by the current withRetry call
  retryCalls,     \* withRetry calls made so far
  \* concurrent assignTransporterToLRs calls (src/unnamed/part_003)
  allocRows,      \* the bookings, with all six assignment columns
  allocJobs,      \* per call: position, arguments, fetched rows, rows written
  \* lrService.createLR / deleteLR and LR numbers (src/unnamed/part_003)
  numRows,        \* the stored bookings: id, branch, lrNumber
  numJobs,        \* per createLR call: position, branch, count read
  numCreated,     \* bookings inserted so far (the next id)
  \* transporterService and its cache (src/services/transporterService.ts)
  tBackend,       \* version of the transporter table: writes applied so far
  tCache,         \* store entry of CACHE_KEYS.TRANSPORTERS: data version, expiresAt
  tJobs,          \* per service call: position, data read, writes completed at its start
  tCompleted,     \* history: newest version whose create/update call has completed
  tReturned,      \* history: the last result a get call returned
  tOps            \* service calls and clock steps so far

sessionVars == <<now, dbStatus, remoteSession, user, loading, lrUser, lastUserId,
                 lastActivity, idleTimer, failSafe, isMounted, restorePc, restoreUid,
                 events, evFetch, deferred, loginPc, loginUid, logoutsInFlight,
                 idleInFlight, refreshPc, refreshUid, ops, seq, evFetchCount,
                 loginEvFetch>>

bootVars == <<bootPc, supabaseUrl, supabaseAnonKey, bootMarker, storage, client>>

\* What the session controller never writes: the profile table and the
\* state of the modules loaded before it.
lrVars == <<lrTable, assignJob, editForm, lrOps>>

retryVars == <<retryPc, retries, attempt, lastError, fnCalls, retryCalls>>

allocVars == <<allocRows, allocJobs>>

numVars == <<numRows, numJobs, numCreated>>

cacheVars == <<tBackend, tCache, tJobs, tCompleted, tReturned, tOps>>

moreVars == <<allocVars, numVars, cacheVars>>

\* The session variables other than the clock.
consoleVars ==
  <<dbStatus, remoteSession, user, loading, lrUser, lastUserId, lastActivity,
    idleTimer, failSafe, isMounted, restorePc, restoreUid, events, evFetch,
    deferred, loginPc, loginUid, logoutsInFlight, idleInFlight, refreshPc,
    refreshUid, ops, seq, evFetchCount, loginEvFetch>>

world == <<dbStatus, bootVars, lrVars, retryVars, moreVars>>

vars == <<sessionVars, bootVars, lrVars, retryVars, moreVars>>

\* ------------------------------------------------------------- authService
Profile(u) == [id |-> u, status |-> dbStatus[u], role |-> RoleOf(u),
               must_reset_password |-> MustResetOf(u)]

\* authService.getUserProfile: .eq('id', userId).single(), no status filter.
\* fetchOk = FALSE is a failed request (error, or an exception that is caught).
GetUserProfile(u, fetchOk) ==
  IF fetchOk /\ dbStatus[u] # "Missing" THEN Profile(u) ELSE NoUser

\* The profile query of authService.login: .eq('id', id).eq('status', 'Active').
LoginProfileQuery(u, fetchOk) ==
  IF fetchOk /\ dbStatus[u] = "Active" THEN Profile(u) ELSE NoUser

\* ------------------------------------------------------------ AuthProvider
\* resetInactivityTimer as the `user` effect runs it after applyUser(profile):
\* lastUserIdRef is set, so the key is written and the timer is scheduled.
\* setUser and the effect act only while the component is mounted; `marker`
\* is what the caller left in kpm_last_activity.
ApplyUser(profile, marker) ==
  /\ lrUser' = profile
  /\ lastUserId' = profile.id
  /\ IF isMounted
       THEN /\ user' = profile
            /\ lastActivity' = now
            /\ idleTimer' = now + TIMEOUT_MS
       ELSE /\ user' = user
            /\ lastActivity' = marker
            /\ idleTimer' = idleTimer

\* Faulty variant: a `user` effect that does not clear the pending timer.
ClearSessionKeepsTimer(marker) ==
  /\ lrUser' = NoUser
  /\ lastUserId' = NoId
  /\ lastActivity' = marker
  /\ user' = IF isMounted THEN NoUser ELSE user
  /\ idleTimer' = idleTimer

\* clearSession, and the `user` effect when `user` changes to null: it
\* clears the pending inactivity timer and leaves kpm_last_activity alone.
ClearSession(marker) ==
  /\ lrUser' = NoUser
  /\ lastUserId' = NoId
  /\ lastActivity' = marker
  /\ IF isMounted
       THEN /\ user' = NoUser
            /\ idleTimer' = IF user # NoUser THEN Absent ELSE idleTimer
       ELSE /\ user' = user
            /\ idleTimer' = idleTimer

\* The provider notifies the subscribed listener; after unsubscribe nothing is queued.
Emit(e) == events' = IF isMounted THEN Append(events, e) ELSE events

CanEmit == Len(events) < MaxQueue

Event(type, uid, src) == [type |-> type, uid |-> uid, src |-> src]

\* supabase.auth.signOut(): the persisted session is removed, SIGNED_OUT is emitted.
SignOutRemote ==
  /\ remoteSession' = NoId
  /\ Emit(Event("SIGNED_OUT", NoId, "provider"))
  /\ evFetchCount' = [u \in Users |-> 0]

\* Faulty variant: ProtectedRoute without the `if (loading)` branch.
ProtectedRouteNoLoading(u, isLoading, adminOnly, path) ==
  IF u = NoUser THEN "login"
  ELSE IF u.must_reset_password /\ path # "/force-reset-password" THEN "force-reset"
  ELSE IF ~u.must_reset_password /\ path = "/force-reset-password" THEN "list"
  ELSE IF adminOnly /\ u.role # "admin" /\ u.role # "developer" THEN "list"
  ELSE "children"

\* ProtectedRoute: what the route renders for the given context and props.
ProtectedRoute(u, isLoading, adminOnly, path) ==
  IF isLoading THEN "spinner"
  ELSE IF u = NoUser THEN "login"
  ELSE IF u.must_reset_password /\ path # "/force-reset-password" THEN "force-reset"
  ELSE IF ~u.must_reset_password /\ path = "/force-reset-password" THEN "list"
  ELSE IF adminOnly /\ u.role # "admin" /\ u.role # "developer" THEN "list"
  ELSE "children"

Other == seq' = "other"

\* ---------------------------------------------------- supabaseClient module
\* Values of VITE_SUPABASE_URL: unset, not a URL, a project URL, a URL of
\* another host.
Urls == {"", "malformed", "https://proj.supabase.co", "http://localhost"}

\* new URL(url) does not throw.
ParsesAsUrl(url) == url \in {"https://proj.supabase.co", "http://localhost"}

\* new URL(url).hostname.split('.')[0]
ProjectIdOf(url) == IF url = "https://proj.supabase.co" THEN "proj" ELSE "localhost"

isValidUrl(url) == url = "https://proj.supabase.co"

\* `sb-${projectId}-auth-token`: the key under which the client persists its session.
TokenKeyOf(projectId) ==
  IF projectId = "proj" THEN "sb-proj-auth-token" ELSE "sb-localhost-auth-token"

StorageKeys == {"sb-proj-auth-token", "sb-old-auth-token", "kpm_settings"}

\* key.startsWith('sb-') && key.endsWith('-auth-token')
IsAuthTokenKey(key) ==
  key \in {"sb-proj-auth-token", "sb-old-auth-token", "sb-localhost-auth-token"}

\* Date.now().toString(): the decimal digits of a timestamp.
RECURSIVE DateToString(_)
DateToString(n) ==
  IF n < 10 THEN <<n>> ELSE Append(DateToString(n \div 10), n % 10)

\* parseInt(str, 10) of a string of decimal digits.
RECURSIVE parseInt(_)
parseInt(str) ==
  IF Len(str) = 0 THEN 0
  ELSE parseInt(SubSeq(str, 1, Len(str) - 1)) * 10 + str[Len(str)]

\* localStorage.removeItem(key)
RemoveItem(keys, key) == SelectSeq(keys, LAMBDA k : k # key)

\* for (i = 0; i < localStorage.length; i++) removeItem(key(i)) for token
\* keys: a removal shifts the keys behind it one place down while i moves on.
RECURSIVE WipeAuthTokens(_, _)
WipeAuthTokens(keys, i) ==
  IF i > Len(keys) THEN keys
  ELSE IF IsAuthTokenKey(keys[i])
         THEN WipeAuthTokens(RemoveItem(keys, keys[i]), i + 1)
         ELSE WipeAuthTokens(keys, i + 1)

\* The module has been loaded with the project configured.
ClientReady ==
  /\ bootPc = "done"
  /\ supabaseUrl = "https://proj.supabase.co"
  /\ supabaseAnonKey = TRUE
  /\ bootMarker = Absent
  /\ storage = <<>>
  /\ client = "real"

\* ----------------------------------------------------------------- lrService
MaxLrOps == 4

LrIds == {"lr1", "lr2"}

\* null in a numeric column
Null == -1

Branches == {"KPM", "TUT"}

\* The display name configured for each branch code.
BranchNameOf(b) == IF b = "KPM" THEN "Kayalpattinam" ELSE "Thoothukudi"

Locations == {"Kayalpattinam", "Thoothukudi"}

PaymentStatuses == {"Paid", "To Pay"}

ChargeStrings == {"100", "250"}

\* parseFloat(lr.charges) || 0, in paise.
parseFloat(str) == IF str = "100" THEN 10000 ELSE IF str = "250" THEN 25000 ELSE 0

\* The Active transporters and their commissionPercent.
Transporters == {"t1", "t2"}

CommissionPercentOf(t) == IF t = "t1" THEN 5 ELSE 12

NoRow == [id |-> "null"]

\* The row createLR inserts: the transporter columns are not sent and are null.
NewRow(id, branch, toLocation, charges, paymentStatus) ==
  [id |-> id, branch |-> branch, toLocation |-> toLocation, charges |-> charges,
   paymentStatus |-> paymentStatus, transporterId |-> "null",
   transporterCommissionPercent |-> Null, transporterCommissionAmount |-> Null,
   netPayableToTransporter |-> Null, assignedAt |-> Null]

NoJob == [transporterId |-> "null", queue |-> <<>>]

\* No booking exists and no lrService operation is running.
LrIdle ==
  /\ lrTable = [i \in LrIds |-> NoRow]
  /\ assignJob = NoJob
  /\ editForm = NoRow
  /\ lrOps = 0

\* ------------------------------------------------------------------ apiClient
MaxRetryCalls == 2

MAX_RETRIES == 2

RETRY_DELAY_MS == 500

API_TIMEOUT_MS == 8000

\* err.code values, as strings of characters: none, duplicate key, foreign
\* key violation, insufficient privilege, HTTP-like 409, PostgREST codes,
\* the bare prefix, connection failure.
NoCode == <<>>

ErrorCodes ==
  {NoCode,
   <<"2", "3", "5", "0", "5">>,
   <<"2", "3", "5", "0", "3">>,
   <<"4", "2", "5", "0", "1">>,
   <<"4", "0", "9">>,
   <<"P", "G", "R", "S", "T", "1", "1", "6">>,
   <<"P", "G", "R", "S", "T">>,
   <<"0", "8", "0", "0", "6">>}

\* code.startsWith(prefix)
StartsWith(code, prefix) ==
  /\ Len(code) >= Len(prefix)
  /\ SubSeq(code, 1, Len(prefix)) = prefix

\* The test of withRetry's catch block that ends the loop.
IsClientError(code) ==
  \/ StartsWith(code, <<"4">>)
  \/ code = <<"2", "3", "5", "0", "5">>
  \/ code = <<"P", "G", "R", "S", "T">>

\* No withRetry call has been made.
RetryIdle ==
  /\ retryPc = "idle"
  /\ retries = 0
  /\ attempt = 0
  /\ lastError = NoCode
  /\ fnCalls = 0
  /\ retryCalls = 0

\* ------------------------------------------------- assignTransporterToLRs
JobIds == {"j1", "j2"}

\* transporter.name of each transporter
TransporterNameOf(t) == IF t = "t1" THEN "Anbu Transports" ELSE "Bharath Lorry"

\* A booking with its assignment columns as createLR leaves them: null.
AllocRow(charges) ==
  [exists |-> TRUE, charges |-> charges, transporterId |-> "null",
   transporterName |-> "null", transporterCommissionPercent |-> Null,
   transporterCommissionAmount |-> Null, netPayableToTransporter |-> Null,
   assignedAt |-> Null]

\* A deleted booking.
GoneRow == [exists |-> FALSE]

IdleJob ==
  [pc |-> "idle", transporterId |-> "null", lrIds |-> {}, queue |-> <<>>,
   assignedAt |-> Null, written |-> {}]

\* No assignTransporterToLRs call has been made.
AllocIdle ==
  /\ allocRows = [i \in LrIds |-> GoneRow]
  /\ allocJobs = [j \in JobIds |-> IdleJob]

\* -------------------------------------------------------------- LR numbers
MaxCreates == 3

NoCreate == [pc |-> "idle", branch |-> "null", count |-> 0]

\* No booking is stored and no createLR call is running.
NumIdle ==
  /\ numRows = {}
  /\ numJobs = [j \in JobIds |-> NoCreate]
  /\ numCreated = 0

\* str.padStart(targetLength, padString) with a one-character padString.
RECURSIVE padStart(_, _, _)
padStart(str, targetLength, padString) ==
  IF Len(str) >= targetLength THEN str
  ELSE padStart(<<padString>> \o str, targetLength, padString)

\* `${lrData.branch}-${((count || 0) + 1).toString().padStart(5, '0')}`
LrNumberOf(branch, count) ==
  <<branch, "-">> \o padStart(DateToString(count + 1), 5, 0)

\* ------------------------------------------------------ transporter cache
MaxCacheOps == 5

CACHE_TTL_SHORT == 5 * 60 * 1000

NoEntry == [version |-> Null, expiresAt |-> Null]

NoCall == [pc |-> "idle", data |-> Null, floor |-> Null]

NoResult == [version |-> Null, floor |-> Null, cached |-> FALSE, age |-> Null]

\* The table holds transporters, the store is empty, no call is running.
CacheIdle ==
  /\ tBackend = 0
  /\ tCache = NoEntry
  /\ tJobs = [j \in JobIds |-> NoCall]
  /\ tCompleted = 0
  /\ tReturned = NoResult
  /\ tOps = 0

\* -------------------------------------------------------------------- Init
\* The provider is mounted: failSafeTimeout is armed, initialize() has called
\* checkSessionGlobally(), whose getSession() is in flight, and the listener
\* is subscribed.  A session persisted by an earlier visit may exist.
Init ==
  /\ ClientReady
  /\ LrIdle
  /\ RetryIdle
  /\ AllocIdle
  /\ NumIdle
  /\ CacheIdle
  /\ now = 0
  /\ dbStatus \in {f \in [Users -> Statuses] : f["u2"] = "Active"}
  /\ remoteSession \in {NoId, "u1"}
  /\ user = NoUser
  /\ loading = TRUE
  /\ lrUser = NoUser
  /\ lastUserId = NoId
  /\ lastActivity = Absent
  /\ idleTimer = Absent
  /\ failSafe = FAILSAFE_MS
  /\ isMounted = TRUE
  /\ restorePc = "getSession"
  /\ restoreUid = NoId
  /\ events = <<>>
  /\ evFetch = [u \in Users |-> 0]
  /\ deferred = 0
  /\ loginPc = "idle"
  /\ loginUid = NoId
  /\ logoutsInFlight = 0
  /\ idleInFlight = 0
  /\ refreshPc = "idle"
  /\ refreshUid = NoId
  /\ ops = 0
  /\ seq = "other"
  /\ evFetchCount = [u \in Users |-> 0]
  /\ loginEvFetch = FALSE

history == <<evFetchCount, loginEvFetch>>

\* A step the user, the provider or the clock takes on its own.  The provider
\* runs the listener as part of the call that changes the auth state, and a
\* zero-delay timer is due at once: neither is still pending when the
\* environment takes its next step.  Remote calls stay in flight for any time.
TakeOp ==
  /\ ops < MaxOps
  /\ events = <<>>
  /\ deferred = 0
  /\ ops' = ops + 1

loginVars == <<loginPc, loginUid>>

refreshVars == <<refreshPc, refreshUid>>

\* Faulty variant: initialize() whose `finally` clears `loading` only after a profile.
InitializeFinishKeepsLoading(profile, marker) ==
  /\ restorePc' = "resolved"
  /\ restoreUid' = NoId
  /\ IF isMounted
       THEN /\ IF profile # NoUser THEN ApplyUser(profile, marker)
                                   ELSE ClearSession(marker)
            /\ loading' = IF profile # NoUser THEN FALSE ELSE loading
            /\ failSafe' = Absent
       ELSE /\ lastActivity' = marker
            /\ UNCHANGED <<user, lrUser, lastUserId, idleTimer, loading, failSafe>>

\* ------------------------------------------------ session restore at startup
\* initialize() after `await globalSessionPromise`: the continuation runs in
\* the turn in which checkSessionGlobally returns.
InitializeFinish(profile, marker) ==
  /\ restorePc' = "resolved"
  /\ restoreUid' = NoId
  /\ IF isMounted
       THEN /\ IF profile # NoUser THEN ApplyUser(profile, marker)
                                   ELSE ClearSession(marker)
            /\ loading' = FALSE
            /\ failSafe' = Absent
       ELSE /\ lastActivity' = marker
            /\ UNCHANGED <<user, lrUser, lastUserId, idleTimer, loading, failSafe>>

\* checkSessionGlobally: getSession() resolves (ok = FALSE: with an error or a throw).
RestoreGetSession ==
  /\ restorePc = "getSession"
  /\ \E ok \in BOOLEAN :
       IF ok /\ remoteSession # NoId
         THEN /\ restorePc' = "profile"
              /\ restoreUid' = remoteSession
              /\ UNCHANGED <<user, lrUser, lastUserId, idleTimer, loading, failSafe, lastActivity>>
         ELSE InitializeFinish(NoUser, lastActivity)
  /\ Other
  /\ UNCHANGED <<now, world, remoteSession, isMounted, events, evFetch, deferred,
                 loginVars, logoutsInFlight, idleInFlight, refreshVars, ops, history>>

\* checkSessionGlobally: getUserProfile(session.user.id) resolves.
RestoreProfile ==
  /\ restorePc = "profile"
  /\ \E fetchOk \in BOOLEAN :
       LET profile == GetUserProfile(restoreUid, fetchOk) IN
       IF profile # NoUser
         THEN InitializeFinish(profile, now)
         ELSE /\ restorePc' = "signOut"
              /\ UNCHANGED restoreUid
              /\ UNCHANGED <<user, lrUser, lastUserId, idleTimer, loading, failSafe, lastActivity>>
  /\ Other
  /\ UNCHANGED <<now, world, remoteSession, isMounted, events, evFetch,
                 deferred, loginVars, logoutsInFlight, idleInFlight, refreshVars, ops,
                 history>>

\* checkSessionGlobally: `await supabase.auth.signOut()` resolves, null is returned.
RestoreSignOut ==
  /\ restorePc = "signOut"
  /\ CanEmit
  /\ SignOutRemote
  /\ InitializeFinish(NoUser, lastActivity)
  /\ Other
  /\ UNCHANGED <<now, world, isMounted, evFetch, deferred, loginVars,
                 logoutsInFlight, idleInFlight, refreshVars, ops, loginEvFetch>>

\* Faulty variant: the fail-safe clears the session and leaves `loading` set.
FailSafeFireKeepsLoading ==
  /\ failSafe # Absent
  /\ now >= failSafe
  /\ failSafe' = Absent
  /\ IF isMounted
       THEN /\ ClearSession(lastActivity)
            /\ UNCHANGED loading
       ELSE UNCHANGED <<user, lrUser, lastUserId, idleTimer, lastActivity, loading>>
  /\ seq' = "other"
  /\ UNCHANGED <<now, world, remoteSession, isMounted, restorePc, restoreUid, events,
                 evFetch, deferred, loginVars, logoutsInFlight, idleInFlight,
                 refreshVars, ops, history>>

\* failSafeTimeout fires.
FailSafeFire ==
  /\ failSafe # Absent
  /\ now >= failSafe
  /\ failSafe' = Absent
  /\ IF isMounted
       THEN /\ ClearSession(lastActivity)
            /\ loading' = FALSE
       ELSE UNCHANGED <<user, lrUser, lastUserId, idleTimer, lastActivity, loading>>
  /\ Other
  /\ UNCHANGED <<now, world, remoteSession, isMounted, restorePc, restoreUid,
                 events, evFetch, deferred, loginVars, logoutsInFlight, idleInFlight,
                 refreshVars, ops, history>>

\* ------------------------------------------------------ provider auth events
\* The provider emits an event on its own: SIGNED_IN again for the live
\* session (tab focus, another tab), a silent token refresh, account deletion.
ProviderEmit ==
  /\ isMounted
  /\ CanEmit
  /\ \E e \in {Event("SIGNED_IN", remoteSession, "provider"),
               Event("TOKEN_REFRESHED", remoteSession, "provider"),
               Event("USER_DELETED", NoId, "provider")} :
       /\ e.type = "SIGNED_IN" => e.uid # NoId
       /\ Emit(e)
  /\ TakeOp
  /\ Other
  /\ UNCHANGED <<now, world, remoteSession, user, loading, lrUser, lastUserId,
                 lastActivity, idleTimer, failSafe, isMounted, restorePc, restoreUid,
                 evFetch, deferred, loginVars, logoutsInFlight, idleInFlight,
                 refreshVars, history>>

\* The onAuthStateChange callback runs for the oldest undelivered event.
HandleEvent ==
  /\ isMounted
  /\ events # <<>>
  /\ LET e == Head(events) IN
       /\ events' = Tail(events)
       /\ IF e.type = "SIGNED_IN"
            THEN /\ IF e.uid # NoId /\ lastUserId # e.uid
                      THEN /\ evFetch' = [evFetch EXCEPT ![e.uid] = @ + 1]
                           /\ evFetchCount' = [evFetchCount EXCEPT ![e.uid] = @ + 1]
                           /\ loginEvFetch' =
                                (loginEvFetch \/ (e.src = "login" /\ e.uid = loginUid))
                      ELSE UNCHANGED <<evFetch, history>>
                 /\ UNCHANGED <<user, lrUser, lastUserId, idleTimer, lastActivity>>
                 /\ Other
            ELSE /\ IF e.type = "TOKEN_REFRESHED" /\ e.uid # NoId
                      THEN UNCHANGED <<user, lrUser, lastUserId, idleTimer, lastActivity>>
                      ELSE ClearSession(lastActivity)
                 /\ seq' = IF e.type = "SIGNED_OUT" THEN seq ELSE "other"
                 /\ UNCHANGED <<evFetch, history>>
  /\ UNCHANGED <<now, world, remoteSession, loading, failSafe, isMounted, restorePc,
                 restoreUid, deferred, loginVars, logoutsInFlight, idleInFlight,
                 refreshVars, ops>>

\* SIGNED_IN handler: `await authService.getUserProfile(session.user.id)` resolves.
EvFetchResolve ==
  /\ \E u \in Users :
       /\ evFetch[u] > 0
       /\ evFetch' = [evFetch EXCEPT ![u] = @ - 1]
       /\ \E fetchOk \in BOOLEAN :
            LET profile == GetUserProfile(u, fetchOk) IN
            IF profile # NoUser
              THEN /\ ApplyUser(profile, lastActivity)
                   /\ UNCHANGED deferred
              ELSE /\ ClearSession(lastActivity)
                   /\ deferred' = deferred + 1
  /\ Other
  /\ UNCHANGED <<now, world, remoteSession, loading, failSafe, isMounted, restorePc,
                 restoreUid, events, loginVars, logoutsInFlight, idleInFlight,
                 refreshVars, ops, history>>

\* setTimeout(() => supabase.auth.signOut(), 0) runs.
DeferredSignOut ==
  /\ deferred > 0
  /\ CanEmit
  /\ deferred' = deferred - 1
  /\ SignOutRemote
  /\ Other
  /\ UNCHANGED <<now, world, user, loading, lrUser, lastUserId, lastActivity,
                 idleTimer, failSafe, isMounted, restorePc, restoreUid, evFetch,
                 loginVars, logoutsInFlight, idleInFlight, refreshVars, ops,
                 loginEvFetch>>

\* ------------------------------------------------------------------- login
\* Login.tsx handleSubmit calls login(); the page leaves when a user is present.
LoginStart ==
  /\ isMounted
  /\ user = NoUser
  /\ loginPc \in {"idle", "ok", "rejectedCred", "rejectedProfile"}
  /\ \E u \in Users : loginUid' = u
  /\ loginPc' = "signIn"
  /\ TakeOp
  /\ loginEvFetch' = FALSE
  /\ Other
  /\ UNCHANGED <<now, world, remoteSession, user, loading, lrUser, lastUserId,
                 lastActivity, idleTimer, failSafe, isMounted, restorePc, restoreUid,
                 events, evFetch, deferred, logoutsInFlight, idleInFlight, refreshVars,
                 evFetchCount>>

\* authService.login: signInWithPassword resolves.  When the provider accepts
\* the credentials it persists the session and emits SIGNED_IN.
LoginSignIn ==
  /\ loginPc = "signIn"
  /\ \E accepted \in BOOLEAN :
       IF accepted
         THEN /\ CanEmit
              /\ remoteSession' = loginUid
              /\ Emit(Event("SIGNED_IN", loginUid, "login"))
              /\ evFetchCount' = [u \in Users |-> 0]
              /\ loginPc' = "profile"
         ELSE /\ loginPc' = "rejectedCred"
              /\ UNCHANGED <<remoteSession, events, evFetchCount>>
  /\ Other
  /\ UNCHANGED <<now, world, user, loading, lrUser, lastUserId, lastActivity,
                 idleTimer, failSafe, isMounted, restorePc, restoreUid, evFetch,
                 deferred, loginUid, logoutsInFlight, idleInFlight, refreshVars, ops,
                 loginEvFetch>>

\* authService.login: the Active-only profile query resolves.  With a profile,
\* the lastLogin update follows (it changes nothing modelled here, and the
\* state while it is awaited is the state while the query is awaited), then
\* login() writes kpm_last_activity and calls applyUser.  Without one,
\* signOut() is called and awaited.
LoginProfileResolve ==
  /\ loginPc = "profile"
  /\ \E fetchOk \in BOOLEAN :
       LET profile == LoginProfileQuery(loginUid, fetchOk) IN
       IF profile # NoUser
         THEN /\ ApplyUser(profile, now)
              /\ loginPc' = "ok"
         ELSE /\ loginPc' = "signOut"
              /\ UNCHANGED <<user, lrUser, lastUserId, lastActivity, idleTimer>>
  /\ Other
  /\ UNCHANGED <<now, world, remoteSession, loading, failSafe, isMounted, restorePc,
                 restoreUid, events, evFetch, deferred, loginUid, logoutsInFlight,
                 idleInFlight, refreshVars, ops, history>>

\* authService.login: `await supabase.auth.signOut()` resolves, login() rejects
\* with 'Account inactive or profile not found'.
LoginSignOut ==
  /\ loginPc = "signOut"
  /\ CanEmit
  /\ SignOutRemote
  /\ loginPc' = "rejectedProfile"
  /\ Other
  /\ UNCHANGED <<now, world, user, loading, lrUser, lastUserId, lastActivity,
                 idleTimer, failSafe, isMounted, restorePc, restoreUid, evFetch,
                 deferred, loginUid, logoutsInFlight, idleInFlight, refreshVars, ops,
                 loginEvFetch>>

\* ------------------------------------------------------------------ logout
\* Faulty variant: logout() without localStorage.removeItem(ACTIVITY_STORAGE_KEY).
LogoutStartKeepsMarker ==
  /\ isMounted
  /\ TakeOp
  /\ logoutsInFlight' = logoutsInFlight + 1
  /\ seq' = IF logoutsInFlight # 0 THEN "other"
            ELSE IF seq \in {"other", "activity"} THEN "L1run"
            ELSE IF seq \in {"L1done", "L2done"} THEN "L2run"
            ELSE "other"
  /\ UNCHANGED <<now, world, remoteSession, user, loading, lrUser, lastUserId,
                 lastActivity, idleTimer, failSafe, isMounted, restorePc, restoreUid,
                 events, evFetch, deferred, loginVars, idleInFlight, refreshVars,
                 history>>

\* logout() up to `await authService.logout()`.
LogoutStart ==
  /\ isMounted
  /\ TakeOp
  /\ lastActivity' = Absent
  /\ logoutsInFlight' = logoutsInFlight + 1
  /\ seq' = IF logoutsInFlight # 0 THEN "other"
            ELSE IF seq \in {"other", "activity"} THEN "L1run"
            ELSE IF seq \in {"L1done", "L2done"} THEN "L2run"
            ELSE "other"
  /\ UNCHANGED <<now, world, remoteSession, user, loading, lrUser, lastUserId,
                 idleTimer, failSafe, isMounted, restorePc, restoreUid, events,
                 evFetch, deferred, loginVars, idleInFlight, refreshVars, history>>

\* Layout's handleLogout: the button is rendered inside a ProtectedRoute, so
\* with loading = false and a user present.
LayoutLogout ==
  /\ ~loading
  /\ user # NoUser
  /\ LogoutStart

\* logout(): signOut() resolves, clearSession() runs.
LogoutFinish ==
  /\ logoutsInFlight > 0
  /\ CanEmit
  /\ logoutsInFlight' = logoutsInFlight - 1
  /\ SignOutRemote
  /\ ClearSession(lastActivity)
  /\ seq' = IF seq = "L1run" THEN "L1done"
            ELSE IF seq = "L2run" THEN "L2done"
            ELSE "other"
  /\ UNCHANGED <<now, world, loading, failSafe, isMounted, restorePc, restoreUid,
                 evFetch, deferred, loginVars, idleInFlight, refreshVars, ops,
                 loginEvFetch>>

\* ------------------------------------------------------------ idle timeout
\* handleActivity on mousemove / keydown / click / scroll in this tab.
Activity ==
  /\ TakeOp
  /\ isMounted
  /\ lastUserId # NoId
  /\ lastActivity' = now
  /\ idleTimer' = now + TIMEOUT_MS
  /\ seq' = "activity"
  /\ UNCHANGED <<now, world, remoteSession, user, loading, lrUser, lastUserId,
                 failSafe, isMounted, restorePc, restoreUid, events, evFetch, deferred,
                 loginVars, logoutsInFlight, idleInFlight, refreshVars, history>>

\* Another tab of the origin, signed in on the shared session, records activity.
OtherTabActivity ==
  /\ TakeOp
  /\ remoteSession # NoId
  /\ lastActivity # now
  /\ lastActivity' = now
  /\ Other
  /\ UNCHANGED <<now, world, remoteSession, user, loading, lrUser, lastUserId,
                 idleTimer, failSafe, isMounted, restorePc, restoreUid, events,
                 evFetch, deferred, loginVars, logoutsInFlight, idleInFlight,
                 refreshVars, history>>

\* The inactivity timer fires: logoutDueToInactivity up to `await signOut()`.
IdleTimerFire ==
  /\ idleTimer # Absent
  /\ now >= idleTimer
  /\ idleTimer' = Absent
  /\ lastActivity' = Absent
  /\ idleInFlight' = idleInFlight + 1
  /\ Other
  /\ UNCHANGED <<now, world, remoteSession, user, loading, lrUser, lastUserId,
                 failSafe, isMounted, restorePc, restoreUid, events, evFetch, deferred,
                 loginVars, logoutsInFlight, refreshVars, ops, history>>

\* logoutDueToInactivity: signOut() resolves, `finally` runs clearSession().
IdleLogoutFinish ==
  /\ idleInFlight > 0
  /\ CanEmit
  /\ idleInFlight' = idleInFlight - 1
  /\ SignOutRemote
  /\ ClearSession(lastActivity)
  /\ Other
  /\ UNCHANGED <<now, world, loading, failSafe, isMounted, restorePc, restoreUid,
                 evFetch, deferred, loginVars, logoutsInFlight, refreshVars, ops,
                 loginEvFetch>>

\* ---------------------------------------------------------- refreshSession
\* refreshSession()'s `logout()`: it runs up to its await and is not awaited.
CallLogout ==
  /\ lastActivity' = Absent
  /\ logoutsInFlight' = logoutsInFlight + 1

RefreshStart ==
  /\ isMounted
  /\ refreshPc = "idle"
  /\ TakeOp
  /\ refreshPc' = "getSession"
  /\ Other
  /\ UNCHANGED <<now, world, remoteSession, user, loading, lrUser, lastUserId,
                 lastActivity, idleTimer, failSafe, isMounted, restorePc, restoreUid,
                 events, evFetch, deferred, loginVars, logoutsInFlight, idleInFlight,
                 refreshUid, history>>

\* authService.getSessionUser: getSession() resolves; an expired access token
\* is refreshed first.  "failed": error or throw; "refreshFailed": the token
\* had expired and supabase.auth.refreshSession() did not return a session.
RefreshGetSession ==
  /\ refreshPc = "getSession"
  /\ \E outcome \in {"session", "failed", "refreshFailed"} :
       IF outcome = "failed" \/ remoteSession = NoId
         THEN /\ CallLogout
              /\ refreshPc' = "idle"
              /\ UNCHANGED refreshUid
         ELSE /\ refreshPc' = IF outcome = "session" THEN "profile" ELSE "signOut"
              /\ refreshUid' = remoteSession
              /\ UNCHANGED <<lastActivity, logoutsInFlight>>
  /\ Other
  /\ UNCHANGED <<now, world, remoteSession, user, loading, lrUser, lastUserId,
                 idleTimer, failSafe, isMounted, restorePc, restoreUid, events,
                 evFetch, deferred, loginVars, idleInFlight, ops, history>>

\* authService.getSessionUser: the forced signOut() resolves and null is
\* returned, so refreshSession() calls logout().
RefreshSignOut ==
  /\ refreshPc = "signOut"
  /\ CanEmit
  /\ SignOutRemote
  /\ CallLogout
  /\ refreshPc' = "idle"
  /\ refreshUid' = NoId
  /\ Other
  /\ UNCHANGED <<now, world, user, loading, lrUser, lastUserId, idleTimer, failSafe,
                 isMounted, restorePc, restoreUid, evFetch, deferred, loginVars,
                 idleInFlight, ops, loginEvFetch>>

\* refreshSession(): getUserProfile resolves.
RefreshProfile ==
  /\ refreshPc = "profile"
  /\ refreshPc' = "idle"
  /\ refreshUid' = NoId
  /\ \E fetchOk \in BOOLEAN :
       LET profile == GetUserProfile(refreshUid, fetchOk) IN
       IF profile # NoUser
         THEN /\ ApplyUser(profile, now)
              /\ UNCHANGED logoutsInFlight
         ELSE /\ CallLogout
              /\ UNCHANGED <<user, lrUser, lastUserId, idleTimer>>
  /\ Other
  /\ UNCHANGED <<now, world, remoteSession, loading, failSafe, isMounted, restorePc,
                 restoreUid, events, evFetch, deferred, loginVars, idleInFlight,
                 ops, history>>

\* -------------------------------------------------------------------- time
Deadlines == {d \in {failSafe, idleTimer} : d # Absent}

NoTimerDue == \A d \in Deadlines : d > now

Earliest == CHOOSE d \in Deadlines : \A e \in Deadlines : d <= e

\* Time passes until the next timer is due.  Reaching the fail-safe deadline
\* happens in every behaviour and is not counted against MaxOps.
ElapseToDeadline ==
  /\ Deadlines # {}
  /\ NoTimerDue
  /\ IF Earliest = failSafe THEN UNCHANGED ops ELSE TakeOp
  /\ now' = Earliest
  /\ UNCHANGED <<world, remoteSession, user, loading, lrUser, lastUserId,
                 lastActivity, idleTimer, failSafe, isMounted, restorePc, restoreUid,
                 events, evFetch, deferred, loginVars, logoutsInFlight, idleInFlight,
                 refreshVars, seq, history>>

\* Time passes, short of the next timer.
ElapseGap ==
  /\ Deadlines # {}
  /\ \A d \in Deadlines : now + ActivityGapMs < d
  /\ TakeOp
  /\ now' = now + ActivityGapMs
  /\ UNCHANGED <<world, remoteSession, user, loading, lrUser, lastUserId,
                 lastActivity, idleTimer, failSafe, isMounted, restorePc, restoreUid,
                 events, evFetch, deferred, loginVars, logoutsInFlight, idleInFlight,
                 refreshVars, seq, history>>

\* ----------------------------------------------------------------- unmount
\* Cleanup of the effects: isMounted = false, the listener is unsubscribed,
\* the activity listeners are removed and the inactivity timer is cleared.
Unmount ==
  /\ TakeOp
  /\ isMounted
  /\ isMounted' = FALSE
  /\ events' = <<>>
  /\ idleTimer' = Absent
  /\ Other
  /\ UNCHANGED <<now, world, remoteSession, user, loading, lrUser, lastUserId,
                 lastActivity, failSafe, restorePc, restoreUid, evFetch, deferred,
                 loginVars, logoutsInFlight, idleInFlight, refreshVars, history>>

\* The controller from startup, with logins and unsolicited provider events.
Next ==
  \/ RestoreGetSession
  \/ RestoreProfile
  \/ RestoreSignOut
  \/ FailSafeFire
  \/ ProviderEmit
  \/ HandleEvent
  \/ EvFetchResolve
  \/ DeferredSignOut
  \/ LoginStart
  \/ LoginSignIn
  \/ LoginProfileResolve
  \/ LoginSignOut
  \/ IdleTimerFire
  \/ IdleLogoutFinish
  \/ ElapseToDeadline

Spec == Init /\ [][Next]_vars

\* The controller from startup with logins, the provider emitting only the
\* events that the controller's own sign-ins and sign-outs cause.
StartupNext ==
  \/ RestoreGetSession
  \/ RestoreProfile
  \/ RestoreSignOut
  \/ FailSafeFire
  \/ HandleEvent
  \/ EvFetchResolve
  \/ DeferredSignOut
  \/ LoginStart
  \/ LoginSignIn
  \/ LoginProfileResolve
  \/ LoginSignOut
  \/ IdleTimerFire
  \/ IdleLogoutFinish
  \/ ElapseToDeadline

\* Timers that are due fire, and time reaches the next deadline.
FairSpec ==
  Init /\ [][StartupNext]_vars /\ WF_vars(ElapseToDeadline) /\ WF_vars(FailSafeFire)

\* The controller from startup with a restored session: logout,
\* refreshSession, activity in this and other tabs, the idle timeout, unmount.
SessionNext ==
  \/ RestoreGetSession
  \/ RestoreProfile
  \/ RestoreSignOut
  \/ FailSafeFire
  \/ ProviderEmit
  \/ HandleEvent
  \/ EvFetchResolve
  \/ DeferredSignOut
  \/ LogoutStart
  \/ LogoutFinish
  \/ Activity
  \/ OtherTabActivity
  \/ IdleTimerFire
  \/ IdleLogoutFinish
  \/ RefreshStart
  \/ RefreshGetSession
  \/ RefreshSignOut
  \/ RefreshProfile
  \/ ElapseToDeadline
  \/ ElapseGap
  \/ Unmount

SessionSpec == Init /\ [][SessionNext]_vars

\* One tab on its own with a restored session: logout, activity in this tab,
\* the idle timeout.  Nothing else writes the origin's storage.
SingleTabNext ==
  \/ RestoreGetSession
  \/ RestoreProfile
  \/ RestoreSignOut
  \/ FailSafeFire
  \/ HandleEvent
  \/ LayoutLogout
  \/ LogoutFinish
  \/ Activity
  \/ IdleTimerFire
  \/ IdleLogoutFinish
  \/ ElapseToDeadline
  \/ ElapseGap

SingleTabSpec == Init /\ [][SingleTabNext]_vars

\* ------------------------------------------------ supabaseClient at load
\* Times of a page load and of the last recorded activity before it.
LoadTimes == {TIMEOUT_MS, TIMEOUT_MS + 1, 2 * TIMEOUT_MS}

MarkerValues == {Absent, 0, 1, TIMEOUT_MS}

Range(f) == {f[i] : i \in DOMAIN f}

\* localStorage as a page load finds it: keys in any order.
Storages ==
  {q \in UNION {[1..n -> StorageKeys] : n \in 0..Cardinality(StorageKeys)} :
     Cardinality(Range(q)) = Len(q)}

\* The page is being loaded: no module has run, no component is mounted.
BootInit ==
  /\ now \in LoadTimes
  /\ lastActivity \in MarkerValues
  /\ storage \in Storages
  /\ supabaseUrl \in Urls
  /\ supabaseAnonKey \in BOOLEAN
  /\ bootPc = "sweep"
  /\ bootMarker = Absent
  /\ client = "none"
  /\ LrIdle
  /\ RetryIdle
  /\ AllocIdle
  /\ NumIdle
  /\ CacheIdle
  /\ dbStatus = [u \in Users |-> "Active"]
  /\ remoteSession = IF "sb-proj-auth-token" \in Range(storage) THEN "u1" ELSE NoId
  /\ user = NoUser
  /\ loading = TRUE
  /\ lrUser = NoUser
  /\ lastUserId = NoId
  /\ idleTimer = Absent
  /\ failSafe = Absent
  /\ isMounted = FALSE
  /\ restorePc = "resolved"
  /\ restoreUid = NoId
  /\ events = <<>>
  /\ evFetch = [u \in Users |-> 0]
  /\ deferred = 0
  /\ loginPc = "idle"
  /\ loginUid = NoId
  /\ logoutsInFlight = 0
  /\ idleInFlight = 0
  /\ refreshPc = "idle"
  /\ refreshUid = NoId
  /\ ops = 0
  /\ seq = "other"
  /\ evFetchCount = [u \in Users |-> 0]
  /\ loginEvFetch = FALSE

\* What the pre-boot check leaves in storage once it has found the marker stale.
SweptStorage ==
  IF supabaseUrl = "" THEN storage
  ELSE IF ParsesAsUrl(supabaseUrl)
         THEN RemoveItem(storage, TokenKeyOf(ProjectIdOf(supabaseUrl)))
         ELSE WipeAuthTokens(storage, 1)

\* Faulty variant: a pre-boot check that removes the marker and keeps the token.
PreBootCheckKeepsToken ==
  /\ bootPc = "sweep"
  /\ bootPc' = "create"
  /\ LET stale == /\ lastActivity # Absent
                  /\ now - parseInt(DateToString(lastActivity)) > TIMEOUT_MS IN
       /\ bootMarker' = IF lastActivity # Absent
                           THEN parseInt(DateToString(lastActivity)) ELSE Absent
       /\ lastActivity' = IF stale THEN Absent ELSE lastActivity
       /\ UNCHANGED <<storage, remoteSession>>
  /\ UNCHANGED <<now, dbStatus, user, loading, lrUser, lastUserId, idleTimer, failSafe,
                 isMounted, restorePc, restoreUid, events, evFetch, deferred, loginVars,
                 logoutsInFlight, idleInFlight, refreshVars, ops, seq, history,
                 supabaseUrl, supabaseAnonKey, client, lrVars, retryVars, moreVars>>

\* The pre-boot inactivity check at the top of the module.
PreBootCheck ==
  /\ bootPc = "sweep"
  /\ bootPc' = "create"
  /\ LET stale == /\ lastActivity # Absent
                  /\ now - parseInt(DateToString(lastActivity)) > TIMEOUT_MS IN
       /\ bootMarker' = IF lastActivity # Absent
                           THEN parseInt(DateToString(lastActivity)) ELSE Absent
       /\ lastActivity' = IF stale THEN Absent ELSE lastActivity
       /\ storage' = IF stale THEN SweptStorage ELSE storage
       /\ remoteSession' = IF "sb-proj-auth-token" \in Range(storage')
                              THEN remoteSession ELSE NoId
  /\ UNCHANGED <<now, dbStatus, user, loading, lrUser, lastUserId, idleTimer, failSafe,
                 isMounted, restorePc, restoreUid, events, evFetch, deferred, loginVars,
                 logoutsInFlight, idleInFlight, refreshVars, ops, seq, history,
                 supabaseUrl, supabaseAnonKey, client, lrVars, retryVars, moreVars>>

\* export const supabase = createSafeSupabaseClient()
CreateClient ==
  /\ bootPc = "create"
  /\ bootPc' = "done"
  /\ client' = IF supabaseUrl = "" \/ ~supabaseAnonKey \/ ~isValidUrl(supabaseUrl)
                 THEN "stub" ELSE "real"
  /\ UNCHANGED <<sessionVars, supabaseUrl, supabaseAnonKey, bootMarker, storage, lrVars,
                 retryVars, moreVars>>

BootNext ==
  \/ PreBootCheck
  \/ CreateClient

BootSpec == BootInit /\ [][BootNext]_vars

\* ------------------------------------------------------ lrService operations
\* The Identities lrService.getCurrentUser() can return to the reporting and
\* assignment features: none, or a user of some role and branch.
LrUsers ==
  {NoUser} \cup
  {[id |-> "u1", status |-> "Active", role |-> r, must_reset_password |-> FALSE,
    branch |-> b] : r \in {"admin", "staff"}, b \in {"ALL", "KPM"}}

\* A signed-in (or signed-out) console with no booking yet.
LrInit ==
  /\ ClientReady
  /\ LrIdle
  /\ RetryIdle
  /\ AllocIdle
  /\ NumIdle
  /\ CacheIdle
  /\ lrUser \in LrUsers
  /\ user = lrUser
  /\ lastUserId = lrUser.id
  /\ remoteSession = lrUser.id
  /\ now = 0
  /\ dbStatus = [u \in Users |-> "Active"]
  /\ loading = FALSE
  /\ lastActivity = IF lrUser = NoUser THEN Absent ELSE 0
  /\ idleTimer = IF lrUser = NoUser THEN Absent ELSE TIMEOUT_MS
  /\ failSafe = Absent
  /\ isMounted = TRUE
  /\ restorePc = "resolved"
  /\ restoreUid = NoId
  /\ events = <<>>
  /\ evFetch = [u \in Users |-> 0]
  /\ deferred = 0
  /\ loginPc = "idle"
  /\ loginUid = NoId
  /\ logoutsInFlight = 0
  /\ idleInFlight = 0
  /\ refreshPc = "idle"
  /\ refreshUid = NoId
  /\ ops = 0
  /\ seq = "other"
  /\ evFetchCount = [u \in Users |-> 0]
  /\ loginEvFetch = FALSE

TakeLrOp ==
  /\ lrOps < MaxLrOps
  /\ lrOps' = lrOps + 1

\* lrService.createLR: the insert of a new booking.
CreateLR ==
  /\ TakeLrOp
  /\ \E id \in LrIds, b \in Branches, to \in Locations, c \in ChargeStrings,
        p \in PaymentStatuses :
       /\ lrTable[id] = NoRow
       /\ lrTable' = [lrTable EXCEPT ![id] = NewRow(id, b, to, c, p)]
  /\ UNCHANGED <<sessionVars, bootVars, retryVars, moreVars, assignJob, editForm>>

\* assignTransporterToLRs up to its loop: select('id, charges').in('id', lrIds).
AssignFetch ==
  /\ TakeLrOp
  /\ assignJob = NoJob
  /\ \E ids \in SUBSET LrIds, t \in Transporters :
       /\ ids # {}
       /\ \A i \in ids : lrTable[i] # NoRow
       /\ LET fetched(i) == [id |-> i, charges |-> lrTable[i].charges] IN
            assignJob' =
              [transporterId |-> t,
               queue |-> IF ids = LrIds THEN <<fetched("lr1"), fetched("lr2")>>
                         ELSE <<fetched(CHOOSE i \in ids : TRUE)>>]
  /\ UNCHANGED <<sessionVars, bootVars, retryVars, moreVars, lrTable, editForm>>

\* The commission columns the loop body computes for one fetched row.
Settlement(charges, t) ==
  LET lrAmount == parseFloat(charges)
      commissionAmount == (lrAmount * CommissionPercentOf(t)) \div 100
  IN [transporterId |-> t,
      transporterCommissionPercent |-> CommissionPercentOf(t),
      transporterCommissionAmount |-> commissionAmount,
      netPayableToTransporter |-> lrAmount - commissionAmount]

\* One iteration of the loop: the awaited update of one row.
AssignUpdate ==
  /\ assignJob # NoJob
  /\ LET lr == Head(assignJob.queue)
         st == Settlement(lr.charges, assignJob.transporterId)
     IN lrTable' =
          [lrTable EXCEPT ![lr.id] =
             [@ EXCEPT !.transporterId = st.transporterId,
                       !.transporterCommissionPercent = st.transporterCommissionPercent,
                       !.transporterCommissionAmount = st.transporterCommissionAmount,
                       !.netPayableToTransporter = st.netPayableToTransporter,
                       !.assignedAt = now]]
  /\ assignJob' = IF Len(assignJob.queue) = 1 THEN NoJob
                  ELSE [assignJob EXCEPT !.queue = Tail(@)]
  /\ UNCHANGED <<sessionVars, bootVars, retryVars, moreVars, editForm, lrOps>>

\* EditLR: getLRById(id) fills formData.
EditLoad ==
  /\ TakeLrOp
  /\ editForm = NoRow
  /\ \E id \in LrIds :
       /\ lrTable[id] # NoRow
       /\ editForm' = lrTable[id]
  /\ UNCHANGED <<sessionVars, bootVars, retryVars, moreVars, lrTable, assignJob>>

\* EditLR handleSubmit: updateLR(formData.id, formData) with the edited
\* charges, payment status and destination; every column of formData is sent.
EditSubmit ==
  /\ editForm # NoRow
  /\ \E c \in ChargeStrings, p \in PaymentStatuses, to \in Locations :
       lrTable' = [lrTable EXCEPT ![editForm.id] =
                     [editForm EXCEPT !.charges = c, !.paymentStatus = p,
                                      !.toLocation = to]]
  /\ editForm' = NoRow
  /\ UNCHANGED <<sessionVars, bootVars, retryVars, moreVars, assignJob, lrOps>>

LrNext ==
  \/ CreateLR
  \/ AssignFetch
  \/ AssignUpdate
  \/ EditLoad
  \/ EditSubmit

LrSpec == LrInit /\ [][LrNext]_vars

\* ------------------------------------------------------- settlement report
\* select(TRANSPORTER_REPORT_COLUMNS): the columns of a row that the report
\* query returns; paymentStatus is not among them and reads as undefined.
ReportColumns(row) == [row EXCEPT !.paymentStatus = "undefined"]

\* The branch filters AdminTransporterReport can pass: the selected code (or
\* 'All') and the name of the Active branch with that code, if any.
ReportFilters ==
  {[branch |-> "All", branchName |-> "undefined"]} \cup
  {[branch |-> b, branchName |-> BranchNameOf(b)] : b \in Branches}

\* lrService.getTransporterReportData for a date range holding every booking
\* and transporterId 'All': the ids of the rows returned.
getTransporterReportData(cur, filters) ==
  IF cur = NoUser THEN {}
  ELSE
    LET rawData == {ReportColumns(lrTable[i]) :
                      i \in {j \in LrIds : /\ lrTable[j] # NoRow
                                            /\ lrTable[j].transporterId # "null"}}
        targetBranchCode ==
          IF cur.branch # "ALL" THEN cur.branch
          ELSE IF filters.branch # "All" THEN filters.branch ELSE "null"
        keep(lr) ==
          LET isOrigin == lr.branch = targetBranchCode
              isDestination == /\ filters.branchName # "undefined"
                               /\ lr.toLocation = filters.branchName
          IN IF lr.paymentStatus = "Paid" THEN isOrigin
             ELSE IF lr.paymentStatus = "To Pay" THEN isDestination
             ELSE FALSE
    IN {lr.id : lr \in IF targetBranchCode # "null"
                         THEN {r \in rawData : keep(r)} ELSE rawData}

\* ------------------------------------------------------- lrService reads
DAY_MS == 24 * 60 * 60 * 1000

\* What a read returns: whether a query was sent, and the ids of its rows;
\* here for a read that returns before building its query.
NoQuery == [queried |-> FALSE, ids |-> {}]

\* The arguments a caller can pass to getLRList / getReportData: a branch
\* filter (or none, or 'All'), and the rows the search, date and page range
\* select.
ListFilters ==
  [branch : {"undefined", "All"} \cup Branches, matching : SUBSET LrIds]

StoredIds == {i \in LrIds : lrTable[i] # NoRow}

\* lrService.getLRList
getLRList(cur, filters) ==
  IF cur = NoUser THEN NoQuery
  ELSE [queried |-> TRUE, ids |-> {i \in StoredIds :
         /\ IF cur.branch # "ALL" THEN lrTable[i].branch = cur.branch
            ELSE IF filters.branch # "undefined" THEN lrTable[i].branch = filters.branch
            ELSE TRUE
         /\ i \in filters.matching}]

\* Faulty variant: the caller's branch filter is applied before the user's.
getReportDataTrustsFilter(cur, filters) ==
  IF cur = NoUser THEN NoQuery
  ELSE [queried |-> TRUE, ids |-> {i \in StoredIds :
         /\ IF filters.branch \notin {"undefined", "All"}
              THEN lrTable[i].branch = filters.branch
            ELSE IF cur.branch # "ALL" THEN lrTable[i].branch = cur.branch
            ELSE TRUE
         /\ i \in filters.matching}]

\* lrService.getReportData
getReportData(cur, filters) ==
  IF cur = NoUser THEN NoQuery
  ELSE [queried |-> TRUE, ids |-> {i \in StoredIds :
         /\ IF cur.branch # "ALL" THEN lrTable[i].branch = cur.branch
            ELSE IF filters.branch \notin {"undefined", "All"}
              THEN lrTable[i].branch = filters.branch
            ELSE TRUE
         /\ i \in filters.matching}]

\* lrService.getUnassignedLRs
getUnassignedLRs(cur) ==
  IF cur = NoUser THEN NoQuery
  ELSE [queried |-> TRUE, ids |-> {i \in StoredIds :
         /\ lrTable[i].transporterId = "null"
         /\ cur.branch # "ALL" => lrTable[i].branch = cur.branch}]

\* lrService.getRecentlyAssignedLRs
getRecentlyAssignedLRs(cur) ==
  IF cur = NoUser THEN NoQuery
  ELSE [queried |-> TRUE, ids |-> {i \in StoredIds :
         /\ lrTable[i].transporterId # "null"
         /\ lrTable[i].assignedAt # Null
         /\ lrTable[i].assignedAt >= now - DAY_MS
         /\ cur.branch # "ALL" => lrTable[i].branch = cur.branch}]

\* ------------------------------------------------------ apiClient.withRetry
\* The gateway is called while nothing else runs: signed-out console at rest.
RetryInit ==
  /\ ClientReady
  /\ LrIdle
  /\ RetryIdle
  /\ AllocIdle
  /\ NumIdle
  /\ CacheIdle
  /\ lrUser = NoUser
  /\ user = NoUser
  /\ lastUserId = NoId
  /\ remoteSession = NoId
  /\ now = 0
  /\ dbStatus = [u \in Users |-> "Active"]
  /\ loading = FALSE
  /\ lastActivity = Absent
  /\ idleTimer = Absent
  /\ failSafe = Absent
  /\ isMounted = TRUE
  /\ restorePc = "resolved"
  /\ restoreUid = NoId
  /\ events = <<>>
  /\ evFetch = [u \in Users |-> 0]
  /\ deferred = 0
  /\ loginPc = "idle"
  /\ loginUid = NoId
  /\ logoutsInFlight = 0
  /\ idleInFlight = 0
  /\ refreshPc = "idle"
  /\ refreshUid = NoId
  /\ ops = 0
  /\ seq = "other"
  /\ evFetchCount = [u \in Users |-> 0]
  /\ loginEvFetch = FALSE

\* apiClient.get/post/put/delete: withRetry(fn) with the default `retries`;
\* the loop starts with attempt = 0 and calls fn().
WithRetryCall ==
  /\ retryPc \in {"idle", "returned", "thrown"}
  /\ retryCalls < MaxRetryCalls
  /\ retryCalls' = retryCalls + 1
  /\ retries' = MAX_RETRIES
  /\ attempt' = 0
  /\ lastError' = NoCode
  /\ fnCalls' = 1
  /\ retryPc' = "call"
  /\ UNCHANGED <<now, consoleVars, bootVars, lrVars, moreVars>>

\* `return await withTimeout(fn())`: fn resolved before the timeout.
AttemptReturns ==
  /\ retryPc = "call"
  /\ retryPc' = "returned"
  /\ UNCHANGED <<now, retries, attempt, lastError, fnCalls, retryCalls, consoleVars, bootVars, lrVars, moreVars>>

\* Faulty variant: the catch block waits and loops without testing
\* `attempt < retries`.
CaughtAlwaysWaits(code, waited) ==
  /\ retryPc = "call"
  /\ now' = now + waited
  /\ lastError' = code
  /\ retryPc' = IF IsClientError(code) THEN "thrown" ELSE "wait"
  /\ UNCHANGED <<retries, attempt, fnCalls, retryCalls, consoleVars, bootVars, lrVars, moreVars>>

\* The catch block after a rejection with err.code = code, reached `waited`
\* ms after the call: break on a client error, else wait when attempts remain,
\* else leave the loop; `throw lastError` follows the loop.
Caught(code, waited) ==
  /\ retryPc = "call"
  /\ now' = now + waited
  /\ lastError' = code
  /\ retryPc' = IF IsClientError(code) THEN "thrown"
                ELSE IF attempt < retries THEN "wait"
                ELSE "thrown"
  /\ UNCHANGED <<retries, attempt, fnCalls, retryCalls, consoleVars, bootVars, lrVars, moreVars>>

\* fn rejected: `if (error) throw error` with the error of the query.
AttemptFails == \E code \in ErrorCodes : Caught(code, 0)

\* withTimeout: the timer rejects with new Error('Request timed out'), which
\* has no code.
AttemptTimesOut == Caught(NoCode, API_TIMEOUT_MS)

\* setTimeout(r, RETRY_DELAY_MS * (attempt + 1)) fires; attempt++ and the next
\* fn() call.
BackoffElapses ==
  /\ retryPc = "wait"
  /\ now' = now + RETRY_DELAY_MS * (attempt + 1)
  /\ attempt' = attempt + 1
  /\ fnCalls' = fnCalls + 1
  /\ retryPc' = "call"
  /\ UNCHANGED <<retries, lastError, retryCalls, consoleVars, bootVars, lrVars, moreVars>>

RetryNext ==
  \/ WithRetryCall
  \/ AttemptReturns
  \/ AttemptFails
  \/ AttemptTimesOut
  \/ BackoffElapses

RetrySpec == RetryInit /\ [][RetryNext]_vars

\* withTimeout settles every attempt within API_TIMEOUT_MS and the backoff
\* timer fires.
FairRetrySpec ==
  /\ RetrySpec
  /\ WF_vars(AttemptReturns \/ AttemptFails \/ AttemptTimesOut)
  /\ WF_vars(BackoffElapses)

\* ------------------------------------- assignTransporterToLRs, concurrently
\* The session variables of a console at rest with Identity u.
ConsoleAtRest(u) ==
  /\ lrUser = u
  /\ user = u
  /\ lastUserId = u.id
  /\ remoteSession = u.id
  /\ dbStatus = [x \in Users |-> "Active"]
  /\ loading = FALSE
  /\ lastActivity = IF u = NoUser THEN Absent ELSE 0
  /\ idleTimer = IF u = NoUser THEN Absent ELSE TIMEOUT_MS
  /\ failSafe = Absent
  /\ isMounted = TRUE
  /\ restorePc = "resolved"
  /\ restoreUid = NoId
  /\ events = <<>>
  /\ evFetch = [x \in Users |-> 0]
  /\ deferred = 0
  /\ loginPc = "idle"
  /\ loginUid = NoId
  /\ logoutsInFlight = 0
  /\ idleInFlight = 0
  /\ refreshPc = "idle"
  /\ refreshUid = NoId
  /\ ops = 0
  /\ seq = "other"
  /\ evFetchCount = [x \in Users |-> 0]
  /\ loginEvFetch = FALSE

AdminUser ==
  [id |-> "u1", status |-> "Active", role |-> "admin",
   must_reset_password |-> FALSE, branch |-> "ALL"]

\* An administrator on the assignment page; both bookings exist and are
\* unassigned.
AllocInit ==
  /\ ClientReady
  /\ LrIdle
  /\ RetryIdle
  /\ ConsoleAtRest(AdminUser)
  /\ now = 0
  /\ allocRows \in [LrIds -> {AllocRow(c) : c \in ChargeStrings}]
  /\ allocJobs = [j \in JobIds |-> IdleJob]
  /\ NumIdle
  /\ CacheIdle

\* handleBulkAssign: assignTransporterToLRs(Array.from(selectedLrIds),
\* transporter) takes its timestamp and issues the select.
AllocCall(j) ==
  /\ allocJobs[j].pc = "idle"
  /\ \E ids \in SUBSET LrIds, t \in Transporters, d \in {0, 1} :
       /\ ids # {}
       /\ now' = now + d
       /\ allocJobs' = [allocJobs EXCEPT ![j] =
            [pc |-> "select", transporterId |-> t, lrIds |-> ids, queue |-> <<>>,
             assignedAt |-> now', written |-> {}]]
  /\ UNCHANGED <<allocRows, consoleVars, bootVars, lrVars, retryVars, numVars,
                 cacheVars>>

\* The orders in which select().in('id', lrIds) can return the rows found.
FetchedOrders(ids) ==
  LET found == {i \in ids : allocRows[i].exists}
      fetched(i) == [id |-> i, charges |-> allocRows[i].charges]
  IN IF found = {} THEN {<<>>}
     ELSE IF found = LrIds
       THEN {<<fetched("lr1"), fetched("lr2")>>, <<fetched("lr2"), fetched("lr1")>>}
     ELSE {<<fetched(CHOOSE i \in found : TRUE)>>}

\* `if (error) throw error` after the select.
AllocSelectFails(j) ==
  /\ allocJobs[j].pc = "select"
  /\ allocJobs' = [allocJobs EXCEPT ![j].pc = "rejected"]
  /\ UNCHANGED <<now, allocRows, consoleVars, bootVars, lrVars, retryVars, numVars,
                 cacheVars>>

\* The select returns the rows that exist; the loop starts, or with no row
\* the function returns.
AllocSelectReturns(j) ==
  /\ allocJobs[j].pc = "select"
  /\ \E q \in FetchedOrders(allocJobs[j].lrIds) :
       allocJobs' = [allocJobs EXCEPT ![j].queue = q,
                                      ![j].pc = IF q = <<>> THEN "resolved" ELSE "loop"]
  /\ UNCHANGED <<now, allocRows, consoleVars, bootVars, lrVars, retryVars, numVars,
                 cacheVars>>

\* The job after one loop iteration; the function returns after the last.
Advance(job, wrote) ==
  [job EXCEPT !.queue = Tail(@),
              !.written = @ \cup wrote,
              !.pc = IF Len(job.queue) = 1 THEN "resolved" ELSE "loop"]

\* Faulty variant: the update sends the transporter columns and the timestamp
\* but not the two amounts.
AllocUpdateSplit(j) ==
  /\ allocJobs[j].pc = "loop"
  /\ LET job == allocJobs[j]
         lr == Head(job.queue)
         st == Settlement(lr.charges, job.transporterId)
     IN /\ allocRows' =
             IF allocRows[lr.id].exists
               THEN [allocRows EXCEPT ![lr.id] =
                      [@ EXCEPT !.transporterId = st.transporterId,
                                !.transporterName = TransporterNameOf(st.transporterId),
                                !.transporterCommissionPercent = st.transporterCommissionPercent,
                                !.assignedAt = job.assignedAt]]
               ELSE allocRows
        /\ allocJobs' = [allocJobs EXCEPT ![j] =
             Advance(job, IF allocRows[lr.id].exists THEN {lr.id} ELSE {})]
  /\ UNCHANGED <<now, consoleVars, bootVars, lrVars, retryVars, numVars,
                 cacheVars>>

\* One loop iteration whose update reaches the table: the six columns of the
\* row with that id, if it still exists, are written in one update.
AllocUpdate(j) ==
  /\ allocJobs[j].pc = "loop"
  /\ LET job == allocJobs[j]
         lr == Head(job.queue)
         st == Settlement(lr.charges, job.transporterId)
     IN /\ allocRows' =
             IF allocRows[lr.id].exists
               THEN [allocRows EXCEPT ![lr.id] =
                      [@ EXCEPT !.transporterId = st.transporterId,
                                !.transporterName = TransporterNameOf(st.transporterId),
                                !.transporterCommissionPercent = st.transporterCommissionPercent,
                                !.transporterCommissionAmount = st.transporterCommissionAmount,
                                !.netPayableToTransporter = st.netPayableToTransporter,
                                !.assignedAt = job.assignedAt]]
               ELSE allocRows
        /\ allocJobs' = [allocJobs EXCEPT ![j] =
             Advance(job, IF allocRows[lr.id].exists THEN {lr.id} ELSE {})]
  /\ UNCHANGED <<now, consoleVars, bootVars, lrVars, retryVars, numVars,
                 cacheVars>>

\* One loop iteration whose update resolves with { error }: the result is not
\* read and the loop goes on.
AllocUpdateFails(j) ==
  /\ allocJobs[j].pc = "loop"
  /\ allocJobs' = [allocJobs EXCEPT ![j] = Advance(allocJobs[j], {})]
  /\ UNCHANGED <<now, allocRows, consoleVars, bootVars, lrVars, retryVars, numVars,
                 cacheVars>>

\* lrService.deleteLR from another console.
AllocDeleteLR ==
  /\ \E i \in LrIds :
       /\ allocRows[i].exists
       /\ allocRows' = [allocRows EXCEPT ![i] = GoneRow]
  /\ UNCHANGED <<now, allocJobs, consoleVars, bootVars, lrVars, retryVars, numVars,
                 cacheVars>>

AllocNext ==
  \/ \E j \in JobIds : AllocCall(j)
  \/ \E j \in JobIds : AllocSelectFails(j)
  \/ \E j \in JobIds : AllocSelectReturns(j)
  \/ \E j \in JobIds : AllocUpdate(j)
  \/ \E j \in JobIds : AllocUpdateFails(j)
  \/ AllocDeleteLR

AllocSpec == AllocInit /\ [][AllocNext]_vars

\* ------------------------------------------------- createLR and deleteLR
\* A signed-in console with an empty bookings table.
NumInit ==
  /\ ClientReady
  /\ LrIdle
  /\ RetryIdle
  /\ AllocIdle
  /\ NumIdle
  /\ CacheIdle
  /\ ConsoleAtRest(AdminUser)
  /\ now = 0

\* createLR up to its first await resolving: the count of the branch's rows
\* (`const { count } = await ...`; the error field is not read, and with an
\* error count is null, so `count || 0` is 0).
CreateCount(j) ==
  /\ numJobs[j].pc = "idle"
  /\ numCreated + Cardinality({k \in JobIds : numJobs[k].pc = "insert"}) < MaxCreates
  /\ \E b \in Branches, ok \in BOOLEAN :
       numJobs' = [numJobs EXCEPT ![j] =
         [pc |-> "insert", branch |-> b,
          count |-> IF ok THEN Cardinality({r \in numRows : r.branch = b}) ELSE 0]]
  /\ UNCHANGED <<numRows, numCreated, sessionVars, bootVars, lrVars, retryVars, allocVars, cacheVars>>

\* createLR: the insert of newLR with the lrNumber built from the count read;
\* `if (error) throw error` when the insert fails.
CreateInsert(j) ==
  /\ numJobs[j].pc = "insert"
  /\ \E ok \in BOOLEAN :
       IF ok
         THEN /\ numCreated' = numCreated + 1
              /\ numRows' = numRows \cup
                   {[id |-> numCreated', branch |-> numJobs[j].branch,
                     lrNumber |-> LrNumberOf(numJobs[j].branch, numJobs[j].count)]}
         ELSE UNCHANGED <<numRows, numCreated>>
  /\ numJobs' = [numJobs EXCEPT ![j] = NoCreate]
  /\ UNCHANGED <<sessionVars, bootVars, lrVars, retryVars, allocVars, cacheVars>>

\* deleteLR(id)
DeleteLR ==
  /\ \E r \in numRows : numRows' = numRows \ {r}
  /\ UNCHANGED <<numJobs, numCreated, sessionVars, bootVars, lrVars, retryVars, allocVars, cacheVars>>

NumNext ==
  \/ \E j \in JobIds : CreateCount(j)
  \/ \E j \in JobIds : CreateInsert(j)
  \/ DeleteLR

NumSpec == NumInit /\ [][NumNext]_vars

\* ------------------------------------------- transporterService and cache
\* An administrator's console; the transporter table is not empty.
CacheInit ==
  /\ ClientReady
  /\ LrIdle
  /\ RetryIdle
  /\ AllocIdle
  /\ NumIdle
  /\ CacheIdle
  /\ ConsoleAtRest(AdminUser)
  /\ now = 0

TakeCacheOp ==
  /\ tOps < MaxCacheOps
  /\ tOps' = tOps + 1

\* cache.get(key): the entry's data, or null when there is none or
\* Date.now() > entry.expiresAt (the entry is then deleted).
CacheHit == tCache # NoEntry /\ ~(now > tCache.expiresAt)

\* getAllTransporters / getTransporterById answered from the cache.
GetCached(j) ==
  /\ tJobs[j].pc = "idle"
  /\ CacheHit
  /\ TakeCacheOp
  /\ tReturned' = [version |-> tCache.version, floor |-> tCompleted, cached |-> TRUE,
                    age |-> now - (tCache.expiresAt - CACHE_TTL_SHORT)]
  /\ UNCHANGED <<now, tBackend, tCache, tJobs, tCompleted, consoleVars, bootVars, lrVars, retryVars, allocVars,
                 numVars>>

\* getAllTransporters (all = TRUE) or getTransporterById with no usable
\* entry: the request to the backend is issued.
GetMiss(j) ==
  /\ tJobs[j].pc = "idle"
  /\ ~CacheHit
  /\ TakeCacheOp
  /\ tCache' = NoEntry
  /\ \E all \in BOOLEAN :
       tJobs' = [tJobs EXCEPT ![j] =
         [pc |-> IF all THEN "getAll" ELSE "getById", data |-> Null,
          floor |-> tCompleted]]
  /\ UNCHANGED <<now, tBackend, tCompleted, tReturned, consoleVars, bootVars, lrVars, retryVars, allocVars,
                 numVars>>

\* The backend evaluates the select of a pending get.
BackendRead(j) ==
  /\ tJobs[j].pc \in {"getAll", "getById"}
  /\ tJobs[j].data = Null
  /\ tJobs' = [tJobs EXCEPT ![j].data = tBackend]
  /\ UNCHANGED <<now, tBackend, tCache, tCompleted, tReturned, tOps, consoleVars, bootVars, lrVars, retryVars, allocVars,
                 numVars>>

\* getAllTransporters: apiClient.get resolves with the rows;
\* cache.set(TRANSPORTERS, data, CACHE_TTL.SHORT); return data.
\* getTransporterById: the single-row select resolves; nothing is stored.
GetResolve(j) ==
  /\ tJobs[j].pc \in {"getAll", "getById"}
  /\ tJobs[j].data # Null
  /\ tCache' = IF tJobs[j].pc = "getAll"
                 THEN [version |-> tJobs[j].data, expiresAt |-> now + CACHE_TTL_SHORT]
                 ELSE tCache
  /\ tReturned' = [version |-> tJobs[j].data, floor |-> tJobs[j].floor,
                    cached |-> FALSE, age |-> Null]
  /\ tJobs' = [tJobs EXCEPT ![j] = NoCall]
  /\ UNCHANGED <<now, tBackend, tCompleted, tOps, consoleVars, bootVars, lrVars, retryVars, allocVars,
                 numVars>>

\* A get whose request fails: apiClient.get rejects, or the single-row select
\* returns an error and getTransporterById returns null.
GetFails(j) ==
  /\ tJobs[j].pc \in {"getAll", "getById"}
  /\ tJobs' = [tJobs EXCEPT ![j] = NoCall]
  /\ UNCHANGED <<now, tBackend, tCache, tCompleted, tReturned, tOps, consoleVars, bootVars, lrVars, retryVars, allocVars,
                 numVars>>

\* createTransporter / updateTransporter: apiClient.post / put is issued.
WriteCall(j) ==
  /\ tJobs[j].pc = "idle"
  /\ TakeCacheOp
  /\ tJobs' = [tJobs EXCEPT ![j] = [pc |-> "write", data |-> Null, floor |-> Null]]
  /\ UNCHANGED <<now, tBackend, tCache, tCompleted, tReturned, consoleVars, bootVars, lrVars, retryVars, allocVars,
                 numVars>>

\* The backend applies the insert or update.
BackendWrite(j) ==
  /\ tJobs[j].pc = "write"
  /\ tJobs[j].data = Null
  /\ tBackend' = tBackend + 1
  /\ tJobs' = [tJobs EXCEPT ![j].data = tBackend']
  /\ UNCHANGED <<now, tCache, tCompleted, tReturned, tOps, consoleVars, bootVars, lrVars, retryVars, allocVars,
                 numVars>>

\* The write resolves: cache.invalidate(CACHE_KEYS.TRANSPORTERS); return.
WriteResolve(j) ==
  /\ tJobs[j].pc = "write"
  /\ tJobs[j].data # Null
  /\ tCache' = NoEntry
  /\ tCompleted' = IF tJobs[j].data > tCompleted THEN tJobs[j].data ELSE tCompleted
  /\ tJobs' = [tJobs EXCEPT ![j] = NoCall]
  /\ UNCHANGED <<now, tBackend, tReturned, tOps, consoleVars, bootVars, lrVars, retryVars, allocVars,
                 numVars>>

\* The write rejects before reaching the backend: no invalidation.
WriteFails(j) ==
  /\ tJobs[j].pc = "write"
  /\ tJobs[j].data = Null
  /\ tJobs' = [tJobs EXCEPT ![j] = NoCall]
  /\ UNCHANGED <<now, tBackend, tCache, tCompleted, tReturned, tOps, consoleVars, bootVars, lrVars, retryVars, allocVars,
                 numVars>>

\* Time passes: one millisecond, or up to the expiry of the entry.
CacheClock ==
  /\ TakeCacheOp
  /\ \E d \in {1} \cup (IF tCache # NoEntry THEN {tCache.expiresAt - now} ELSE {}) :
       /\ d > 0
       /\ now' = now + d
  /\ UNCHANGED <<tBackend, tCache, tJobs, tCompleted, tReturned, consoleVars, bootVars, lrVars, retryVars, allocVars,
                 numVars>>

CacheNext ==
  \/ \E j \in JobIds : GetCached(j)
  \/ \E j \in JobIds : GetMiss(j)
  \/ \E j \in JobIds : BackendRead(j)
  \/ \E j \in JobIds : GetResolve(j)
  \/ \E j \in JobIds : GetFails(j)
  \/ \E j \in JobIds : WriteCall(j)
  \/ \E j \in JobIds : BackendWrite(j)
  \/ \E j \in JobIds : WriteResolve(j)
  \/ \E j \in JobIds : WriteFails(j)
  \/ CacheClock

CacheSpec == CacheInit /\ [][CacheNext]_vars

\* ================================================================== claims

\* C1: an inactive identity is never treated as authenticated: the Session
\* Store (and the lrService singleton) never holds an Identity whose profile
\* status was Inactive when it was loaded.
C1_NoInactiveIdentity == user.status # "Inactive" /\ lrUser.status # "Inactive"

\* C2: login() with credentials the provider accepts and a profile row that
\* is missing or Inactive rejects only out of the awaited signOut(), so that
\* while login stands rejected the remote session it created is signed out,
\* and from the accepted sign-in on no step puts the rejected identity into
\* the Session Store (the startup restore being over, nothing but this login
\* and the session it created is at work).
C2_LoginRejectLeavesNoIdentity ==
  /\ [](loginPc = "rejectedProfile" => remoteSession = NoId)
  /\ [][(loginPc' = "rejectedProfile" /\ loginPc # "rejectedProfile")
          => loginPc = "signOut"]_vars
  /\ [][(/\ restorePc = "resolved"
          /\ loginPc \in {"profile", "signOut", "rejectedProfile"}
          /\ loginPc' \in {"profile", "signOut", "rejectedProfile"}
          /\ dbStatus[loginUid] # "Active")
          => (user'.id = loginUid => user.id = loginUid)]_vars

\* C3: bounded startup: while the provider is mounted `loading` is not set
\* once the 5 s ceiling has passed, and when the fail-safe fires with the
\* restore still unresolved the controller is Unauthenticated with
\* loading = false at that moment, no later than the ceiling.
C3_BoundedStartup ==
  /\ []((isMounted /\ now > FAILSAFE_MS) => ~loading)
  /\ []((isMounted /\ loading) => (failSafe # Absent /\ now <= failSafe))
  /\ [][(isMounted /\ failSafe # Absent /\ failSafe' = Absent
           /\ restorePc' # "resolved")
          => (user' = NoUser /\ ~loading' /\ now' <= FAILSAFE_MS)]_vars

C3_Witness ==
  /\ restorePc # "resolved"
  /\ now = FAILSAFE_MS
  /\ failSafe = Absent
  /\ user = NoUser
  /\ ~loading

\* C4: an initialization that ends without a profile (getSession error or no
\* session, profile fetch failure followed by sign-out, a caught exception)
\* leaves the controller Unauthenticated with loading = false, and `loading`
\* does not stay set forever.
C4_InitAlwaysSettles ==
  /\ [][(isMounted /\ restorePc \in {"getSession", "signOut"}
           /\ restorePc' = "resolved")
          => (user' = NoUser /\ lrUser' = NoUser /\ ~loading')]_vars
  /\ <>(~isMounted \/ ~loading)

C4_Witness ==
  /\ restorePc = "resolved"
  /\ dbStatus["u1"] = "Missing"
  /\ events = <<Event("SIGNED_OUT", NoId, "provider")>>
  /\ ops = 0
  /\ now < FAILSAFE_MS
  /\ user = NoUser
  /\ ~loading

\* C5: ProtectedRoute renders its children only when loading = false and an
\* Identity is present (for adminOnly, one with an administrator or developer
\* role); while loading is set it renders the spinner whatever the Identity.
C5_NoRoleCheckWhileLoading ==
  \A adminOnly \in BOOLEAN, path \in Paths :
    LET shown == ProtectedRoute(user, loading, adminOnly, path) IN
    /\ loading => shown = "spinner"
    /\ shown = "children" =>
         /\ ~loading
         /\ user # NoUser
         /\ adminOnly => user.role \in {"admin", "developer"}

C5_Witness == loading /\ user # NoUser /\ user.role = "admin"

\* C6: after logout() has run to completion once, or twice in a row, with no
\* other handler in between, the end state is the same: Identity empty in the
\* Session Store and in lrService, last-seen id empty, kpm_last_activity
\* absent, no inactivity timer pending.
C6_LogoutIdempotent ==
  seq \in {"L1done", "L2done"} =>
    /\ user = NoUser
    /\ lrUser = NoUser
    /\ lastUserId = NoId
    /\ lastActivity = Absent
    /\ idleTimer = Absent
    /\ remoteSession = NoId

C6_Witness == seq = "L2done"

\* C7: for auth events carrying the same identity id, handlers invoke
\* getUserProfile at most once (counted per remote session).
C7_AtMostOneProfileFetch == \A u \in Users : evFetchCount[u] <= 1

\* C8: during one login() the login's profile query and the getUserProfile of
\* the handler of the SIGNED_IN event that login caused do not both execute.
C8_NoDoubleFetchInLogin ==
  ~(loginEvFetch /\ loginPc \in {"profile", "signOut", "ok", "rejectedProfile"})

\* C9: no getUserProfile call is started, or awaited, inside the provider's
\* event-delivery callback.
C9_FetchDeferred == \A u \in Users : evFetch[u] = 0

\* C10: when the inactivity timer fires, logout is forced only if the
\* persisted last-activity timestamp is absent or at least TIMEOUT_MS old.
C10_IdleFireRechecks ==
  [][(idleTimer # Absent /\ now >= idleTimer /\ idleInFlight' = idleInFlight + 1)
       => (lastActivity = Absent \/ now - lastActivity >= TIMEOUT_MS)]_vars

C12_MarkerClearedWithIdentity ==
  (/\ isMounted
   /\ user = NoUser
   /\ restorePc = "resolved"
   /\ loginPc \in {"idle", "ok", "rejectedCred", "rejectedProfile"}
   /\ refreshPc = "idle"
   /\ logoutsInFlight = 0
   /\ idleInFlight = 0
   /\ events = <<>>
   /\ deferred = 0
   /\ \A u \in Users : evFetch[u] = 0)
  => lastActivity = Absent

\* C13: when a logout() completes, kpm_last_activity is absent, also when
\* activity events of this tab were handled while its sign-out was in flight.
C13_LogoutClearsMarker ==
  [][(logoutsInFlight' < logoutsInFlight) => lastActivity' = Absent]_vars

\* The write throttle of the activity monitor that C14 states: 60 seconds.
ThrottleMs == 60 * 1000

\* C14: writes of kpm_last_activity by activity detection are throttled: when
\* one activity event is handled after another, with nothing but time in
\* between, the second writes the key only if the first write is at least
\* 60 seconds old.
C14_ActivityWritesThrottled ==
  [][(seq = "activity" /\ seq' = "activity" /\ ops' = ops + 1 /\ now' = now
        /\ lastActivity' = now)
       => now - lastActivity >= ThrottleMs]_vars

\* C15: when the client is constructed over the project's storage and the
\* pre-boot check had read a last-activity timestamp older than TIMEOUT_MS,
\* the marker and the project's persisted auth token are no longer in
\* storage; the check has run before the client exists.
C15_SweepBeforeClient ==
  /\ client # "none" => bootPc = "done"
  /\ (client = "real" /\ bootMarker # Absent /\ now - bootMarker > TIMEOUT_MS)
       => /\ lastActivity = Absent
          /\ TokenKeyOf(ProjectIdOf(supabaseUrl)) \notin Range(storage)
          /\ remoteSession = NoId

C15_Witness ==
  /\ client = "real"
  /\ bootMarker = 0
  /\ now = TIMEOUT_MS + 1
  /\ Len(storage) = 2

\* C16: when refreshSession() settles with an Identity in the Session Store
\* (provider mounted), either a profile was found,
\* and it is the Identity with kpm_last_activity reset to now, or a full
\* logout has been performed: no remote session, no Identity in the Session
\* Store or in lrService, no last-seen id, no last-activity marker.
C16_RefreshLogsOutFully ==
  [][(isMounted /\ user # NoUser /\ refreshPc # "idle" /\ refreshPc' = "idle")
       => IF logoutsInFlight' = logoutsInFlight
            THEN /\ user' # NoUser
                 /\ user'.id = refreshUid
                 /\ lastActivity' = now
            ELSE /\ remoteSession' = NoId
                 /\ user' = NoUser
                 /\ lrUser' = NoUser
                 /\ lastUserId' = NoId
                 /\ lastActivity' = Absent]_vars

\* C17: settlement invariant: every booking with a transporter assigned has
\* commission amount = charge x commission percent / 100 and commission
\* amount + net payable = charge (amounts in paise); every booking without
\* one has commission percent, commission amount and net payable null.
C17_SettlementInvariant ==
  \A i \in LrIds :
    LET lr == lrTable[i] IN
    lr # NoRow =>
      IF lr.transporterId # "null"
        THEN /\ lr.transporterCommissionAmount * 100
                  = parseFloat(lr.charges) * lr.transporterCommissionPercent
             /\ lr.transporterCommissionAmount + lr.netPayableToTransporter
                  = parseFloat(lr.charges)
        ELSE /\ lr.transporterCommissionPercent = Null
             /\ lr.transporterCommissionAmount = Null
             /\ lr.netPayableToTransporter = Null

\* C18: branch responsibility: a report scoped to branch B, by an ALL-branch
\* user selecting B or by a user whose own branch is B, includes an assigned
\* booking if and only if it is Paid with booking.branch = B, or To Pay with
\* shipment.toLocation = the display name of B.
C18_BranchResponsibility ==
  lrUser # NoUser =>
    \A f \in ReportFilters, i \in LrIds :
      LET lr == lrTable[i]
          B  == IF lrUser.branch # "ALL" THEN lrUser.branch ELSE f.branch
      IN (/\ lr # NoRow
          /\ lr.transporterId # "null"
          /\ B \in Branches
          /\ lrUser.branch = "ALL" \/ f.branch \in {"All", B})
         => ((i \in getTransporterReportData(lrUser, f))
               <=> \/ lr.paymentStatus = "Paid" /\ lr.branch = B
                   \/ lr.paymentStatus = "To Pay" /\ lr.toLocation = BranchNameOf(B))

\* C19: the Settlement Allocator requires an Identity with an administrator
\* or developer role: with no current user, or with a staff user,
\* getTransporterReportData returns no booking and assignTransporterToLRs
\* writes no transporter or commission column.
C19_AllocatorRequiresAdmin ==
  (lrUser = NoUser \/ lrUser.role \notin {"admin", "developer"}) =>
    /\ \A f \in ReportFilters : getTransporterReportData(lrUser, f) = {}
    /\ \A i \in LrIds :
         lrTable[i] # NoRow =>
           /\ lrTable[i].transporterId = "null"
           /\ lrTable[i].transporterCommissionAmount = Null
           /\ lrTable[i].netPayableToTransporter = Null


\* The codes of a client-side, validation or conflict failure: duplicate key,
\* a code starting with 4, a code of the PGRST class.
IsNonTransient(code) ==
  \/ code = <<"2", "3", "5", "0", "5">>
  \/ StartsWith(code, <<"4">>)
  \/ StartsWith(code, <<"P", "G", "R", "S", "T">>)

\* C20: a failure whose code marks a client-side, validation or conflict error
\* (23505, a code starting with 4, a code of the PGRST class) is never followed
\* by a backoff wait or another call of the operation: withRetry throws that
\* error at once.
C20_NonTransientNeverRetried ==
  [][(retryPc = "call" /\ retryPc' \notin {"call", "returned"}
        /\ IsNonTransient(lastError'))
       => (retryPc' = "thrown" /\ now' = now /\ fnCalls' = fnCalls)]_vars


\* C21: withRetry calls the operation at most MAX_RETRIES + 1 = 3 times, waits
\* RETRY_DELAY_MS times the number of the attempt that failed before the next
\* one, and every call ends: it returns, or throws the last error caught.
C21_BoundedRetry ==
  /\ [](fnCalls <= MAX_RETRIES + 1)
  /\ [][(retryPc = "wait" /\ retryPc' = "call")
         => (now' = now + RETRY_DELAY_MS * fnCalls /\ fnCalls' = fnCalls + 1)]_vars
  /\ [][(retryPc = "call" /\ retryPc' = "thrown" /\ ~IsClientError(lastError'))
         => fnCalls = MAX_RETRIES + 1]_vars
  /\ (retryPc \in {"call", "wait"} ~> retryPc \in {"returned", "thrown"})

C21_Witness ==
  /\ retryPc = "thrown"
  /\ fnCalls = MAX_RETRIES + 1
  /\ lastError = NoCode
  /\ now = 3 * API_TIMEOUT_MS + 3 * RETRY_DELAY_MS


\* C22: each write of assignTransporterToLRs stores, for its booking, a
\* commission amount equal to the booking's charge at the time of the write
\* times the transporter's commissionPercent / 100, and a net payable equal to
\* that charge minus the commission, also when updateLR changed the charges
\* after the allocator read them.
C22_AssignUsesCurrentCharge ==
  [][(assignJob # NoJob /\ assignJob' # assignJob)
       => LET id == Head(assignJob.queue).id
              lr == lrTable'[id]
              charge == parseFloat(lrTable[id].charges)
          IN /\ lr.transporterCommissionAmount * 100
                  = charge * CommissionPercentOf(assignJob.transporterId)
             /\ lr.netPayableToTransporter
                  = charge - lr.transporterCommissionAmount]_vars


\* C23: at every moment, also in the middle of a batch and with two
\* assignments of different transporters running on the same bookings, the six
\* assignment columns of each booking are either all null or all those of one
\* assignTransporterToLRs call: its transporter's id, name and percent, the
\* commission and net payable computed with that percent, and its timestamp.
C23_SixFieldsFromOneAssignment ==
  \A i \in LrIds :
    LET lr == allocRows[i] IN
    lr.exists =>
      \/ /\ lr.transporterId = "null"
         /\ lr.transporterName = "null"
         /\ lr.transporterCommissionPercent = Null
         /\ lr.transporterCommissionAmount = Null
         /\ lr.netPayableToTransporter = Null
         /\ lr.assignedAt = Null
      \/ \E j \in JobIds :
           LET job == allocJobs[j]
               pct == CommissionPercentOf(job.transporterId)
           IN /\ i \in job.written
              /\ lr.transporterId = job.transporterId
              /\ lr.transporterName = TransporterNameOf(job.transporterId)
              /\ lr.transporterCommissionPercent = pct
              /\ lr.transporterCommissionAmount * 100 = parseFloat(lr.charges) * pct
              /\ lr.netPayableToTransporter
                   = parseFloat(lr.charges) - lr.transporterCommissionAmount
              /\ lr.assignedAt = job.assignedAt

C23_Witness ==
  /\ allocJobs["j1"].pc = "loop"
  /\ allocJobs["j2"].pc = "loop"
  /\ allocJobs["j1"].transporterId # allocJobs["j2"].transporterId
  /\ allocJobs["j1"].assignedAt # allocJobs["j2"].assignedAt
  /\ "lr1" \in allocJobs["j1"].written \cap allocJobs["j2"].written
  /\ allocRows["lr1"].exists
  /\ allocRows["lr1"].transporterId = allocJobs["j2"].transporterId
  /\ allocRows["lr2"].exists
  /\ allocRows["lr2"].transporterId = "null"


\* C28: an assignTransporterToLRs call that has resolved has written the
\* transporter and commission columns of every booking id it was given: a
\* failed update, or an id the initial read did not return, makes it reject.
C28_ResolvedMeansAllWritten ==
  \A j \in JobIds :
    allocJobs[j].pc = "resolved" => allocJobs[j].written = allocJobs[j].lrIds


\* C24: after the fail-safe has fired with the restore still pending (Identity
\* empty, loading false), the resolution of the restore promise leaves the
\* Identity empty.
C24_RestoreAfterFailSafeKeepsEmpty ==
  [][(isMounted /\ failSafe = Absent /\ ~loading /\ user = NoUser
        /\ restorePc # "resolved" /\ restorePc' = "resolved")
       => user' = NoUser]_vars


\* C25: the Identity set by a login() that succeeded while the startup restore
\* was pending is not cleared when the restore completes without a session,
\* nor when the fail-safe timer fires afterwards.
C25_LoginDuringRestoreKept ==
  [][(isMounted /\ loginPc = "ok" /\ user # NoUser /\ user.id = loginUid
        /\ restorePc # "resolved"
        /\ (restorePc' = "resolved" \/ (failSafe # Absent /\ failSafe' = Absent)))
       => user' = user]_vars


\* C26: once a logout has completed (the provider session is gone, the
\* Identity is empty, no logout, restore or login is in progress), no step
\* sets the Identity: a profile fetch started before the logout by the
\* SIGNED_IN handler or by refreshSession does not apply its result.
C26_NoIdentityAfterLogout ==
  [][(isMounted /\ events = <<>> /\ deferred = 0
        /\ user = NoUser /\ remoteSession = NoId
        /\ logoutsInFlight = 0 /\ idleInFlight = 0 /\ restorePc = "resolved"
        /\ loginPc \notin {"signIn", "profile", "signOut"})
       => user' = NoUser]_vars


\* C27: LR numbers are unique: under every interleaving of createLR calls and
\* every sequence of createLR and deleteLR, no two stored bookings have the
\* same lrNumber.
C27_LrNumbersUnique ==
  \A r1, r2 \in numRows : r1.lrNumber = r2.lrNumber => r1 = r2


\* C29: every result of getAllTransporters / getTransporterById reflects all
\* createTransporter / updateTransporter calls that had completed when the get
\* was called, also when a getAllTransporters fetch was in flight during the
\* write and its invalidation; and a cached result is never older than the
\* TTL.
C29_CacheCoherent ==
  tReturned # NoResult =>
    /\ tReturned.version >= tReturned.floor
    /\ tReturned.cached => tReturned.age <= CACHE_TTL_SHORT


\* C30: for a current user whose branch is not 'ALL', getLRList,
\* getReportData, getUnassignedLRs and getRecentlyAssignedLRs return only
\* bookings of the user's branch, whatever branch filter is passed; with no
\* current user each returns an empty result and sends no query.
C30_ReadsBranchScoped ==
  LET results ==
        {getLRList(lrUser, f) : f \in ListFilters}
          \cup {getReportData(lrUser, f) : f \in ListFilters}
          \cup {getUnassignedLRs(lrUser), getRecentlyAssignedLRs(lrUser)}
  IN /\ lrUser = NoUser => results = {NoQuery}
     /\ (lrUser # NoUser /\ lrUser.branch # "ALL") =>
          \A r \in results :
            /\ r.queried
            /\ \A i \in r.ids : lrTable[i].branch = lrUser.branch

C30_Witness ==
  /\ lrUser # NoUser
  /\ lrUser.branch = "KPM"
  /\ lrTable["lr1"] # NoRow
  /\ lrTable["lr2"] # NoRow
  /\ lrTable["lr1"].branch = "KPM"
  /\ lrTable["lr2"].branch = "TUT"
  /\ lrTable["lr1"].transporterId # "null"
  /\ lrTable["lr2"].transporterId # "null"
  /\ getRecentlyAssignedLRs(lrUser).ids = {"lr1"}
  /\ getLRList(lrUser, [branch |-> "TUT", matching |-> LrIds]).ids = {"lr1"}

====
